---- MODULE Spec2Model ----
(***************************************************************************)
(* State-machine model of bot.py: the /callapi slash-command handler       *)
(* (call_api_command), the FastAPI lifespan that supervises the Discord    *)
(* client task, and the health endpoint (root).                            *)
(*                                                                         *)
(* An action is the code that runs between two suspension points (awaits)  *)
(* of a coroutine.  The result of every await (the platform accepting or   *)
(* rejecting a message, the API's answer, the parsed body) is chosen by    *)
(* the environment and recorded in env; the calls a handler issues are     *)
(* recorded in log.                                                        *)
(***************************************************************************)
EXTENDS Integers, Sequences, FiniteSets, TLC

\* ------------------------------------------------------------------------
\* Bounds
\* ------------------------------------------------------------------------
\* Number of command invocations that may be in flight at the same time.
NumInvocations == 2

Invocations == 1..NumInvocations

\* ------------------------------------------------------------------------
\* Configuration (bot.py:13-21)
\* ------------------------------------------------------------------------
\* os.getenv yields None when the variable is unset.
NONE == "<None>"

ALLOWED_ROLE_IDS == {"1405292890049216543", "987654321098765432"}

\* Values DISCORD_BOT_TOKEN / DISCORD_GUILD_ID can have after os.getenv.
TokenValues == {NONE, "", "t0k3n"}
GuildValues == {NONE, "42"}

\* Role-id sets of the invoking users: an unrelated role only, one allowed
\* role among others, the other allowed role alone.
RoleSets ==
    { {"111"},
      {"111", "1405292890049216543"},
      {"987654321098765432"} }

\* ------------------------------------------------------------------------
\* Values exchanged with the platform and the API
\* ------------------------------------------------------------------------
\* Exception classes as the except clauses of the handler tell them apart:
\* aiohttp.ClientError (and subclasses), and every other Exception.
FailureKinds == {"ClientError", "Exception"}

\* A parsed JSON object is a set of <<key, value>> pairs.
Bodies ==
    { {},
      {<<"content", "Hi">>},
      {<<"content", "Hi">>, <<"author", "Bob">>} }

\* HTTP statuses the API answers with.
Statuses == {200, 500}

\* Result of one await.  res is "ok" or the class of the exception raised;
\* status is the HTTP status of a GET (0 when not a GET); isDict and data
\* describe the value returned by response.json().
Result(res, status, isDict, data) ==
    [res |-> res, status |-> status, isDict |-> isDict, data |-> data]

OkResult == Result("ok", 0, FALSE, {})
Failure(kind) == Result(kind, 0, FALSE, {})

\* What an await on a platform call (send_message, defer, followup.send)
\* can produce: success, or discord.HTTPException (the platform rejected
\* the call), which is not an aiohttp.ClientError.
PlatformResults == {OkResult, Failure("Exception")}

\* What `async with session.get(API_ENDPOINT) as response` can produce.
GetResults ==
    {Result("ok", s, FALSE, {}) : s \in Statuses}
        \cup {Failure(k) : k \in FailureKinds}

\* What `await response.json()` can produce: a JSON object, a JSON value
\* that is not an object (a list), ContentTypeError (a ClientError) or a
\* decoding error (any other Exception).
JsonResults ==
    {Result("ok", 0, TRUE, b) : b \in Bodies}
        \cup {Result("ok", 0, FALSE, {})}
        \cup {Failure(k) : k \in FailureKinds}

\* dict.get(key, default)
DictGet(d, key, default) ==
    IF \E p \in d : p[1] = key
    THEN (CHOOSE p \in d : p[1] = key)[2]
    ELSE default

\* str(int) of the f-string at bot.py:129
Digit(d) ==
    CASE d = 0 -> "0" [] d = 1 -> "1" [] d = 2 -> "2" [] d = 3 -> "3"
      [] d = 4 -> "4" [] d = 5 -> "5" [] d = 6 -> "6" [] d = 7 -> "7"
      [] d = 8 -> "8" [] d = 9 -> "9"

RECURSIVE IntToStr(_)
IntToStr(n) ==
    IF n < 10 THEN Digit(n) ELSE IntToStr(n \div 10) \o Digit(n % 10)

\* A message handed to the platform.
Message(kind, text, quote, author, footer) ==
    [kind |-> kind, text |-> text, quote |-> quote, author |-> author,
     footer |-> footer]

TextMessage(text) == Message("text", text, "", "", "")

DenialMessage ==
    TextMessage("Sorry, you don't have the required role to use this command.")

ConnectionErrorMessage ==
    TextMessage("An error occurred while trying to connect to the API.")

GenericErrorMessage == TextMessage("An unexpected error occurred.")

\* bot.py:129  the f-string around response.status.  The source quotes the
\* code with grave accents, which a TLA+ string cannot hold; an apostrophe
\* stands for each.
StatusErrorMessage(status) ==
    TextMessage("Error: The API returned a status code of '"
                    \o IntToStr(status) \o "'.")

\* Mutant of QuoteEmbed: the two defaults exchanged.
QuoteEmbedSwappedDefaults(data) ==
    Message("embed", "API Call Successful!",
            "_" \o DictGet(data, "content", "Unknown") \o "_",
            "- " \o DictGet(data, "author", "N/A"),
            "Powered by Quotable API")

\* The embed built at bot.py:118-125.
QuoteEmbed(data) ==
    Message("embed", "API Call Successful!",
            "_" \o DictGet(data, "content", "N/A") \o "_",
            "- " \o DictGet(data, "author", "Unknown"),
            "Powered by Quotable API")

NoMessage == Message("none", "", "", "", "")

\* A call issued by the handler.
Call(op, msg, ephemeral) == [op |-> op, msg |-> msg, ephemeral |-> ephemeral]

SendMessageCall == Call("response.send_message", DenialMessage, TRUE)
DeferCall       == Call("response.defer", NoMessage, FALSE)
GetCall         == Call("session.get", NoMessage, FALSE)
JsonCall        == Call("response.json", NoMessage, FALSE)
FollowupCall(msg) == Call("followup.send", msg, FALSE)

\* ------------------------------------------------------------------------
\* State
\* ------------------------------------------------------------------------
VARIABLES
    BOT_TOKEN,   \* configuration read at import
    GUILD_ID,
    lifePc,      \* position of the lifespan context manager
    task,        \* state of the client.start background task
    clientClosed,\* client.close() has completed
    synced,      \* scope the command tree was synced to by setup_hook
    taskAtShutdown, \* state of the task when shutdown began (history)
    health,      \* <<task state, response>> pairs answered by root()
    pc,          \* per invocation: position of call_api_command
    roles,       \* per invocation: user_role_ids
    log,         \* per invocation: calls awaited so far, in order
    env          \* per invocation: env[i][k] is the result of log[i][k]

lifeVars == <<BOT_TOKEN, GUILD_ID, lifePc, task, clientClosed, synced,
              taskAtShutdown, health>>
cmdVars  == <<pc, roles, log, env>>
vars     == <<BOT_TOKEN, GUILD_ID, lifePc, task, clientClosed, synced,
              taskAtShutdown, health, pc, roles, log, env>>

\* ------------------------------------------------------------------------
\* call_api_command (bot.py:94-136)
\* ------------------------------------------------------------------------
\* Mutant of Authorized: any role at all grants access.
AuthorizedAnyRole(r) == r # {}

\* bot.py:102  user_role_ids.intersection(ALLOWED_ROLE_IDS) is non-empty
Authorized(r) == (r \cap ALLOWED_ROLE_IDS) # {}

\* Mutant of Issue: the call goes through one module-level interaction
\* object (the first invocation's) instead of the handler's own.
IssueShared(i, c, p) ==
    /\ log' = [log EXCEPT ![1] = Append(@, c)]
    /\ pc' = [pc EXCEPT ![i] = p]

\* The handler issues call c and suspends at position p.
Issue(i, c, p) ==
    /\ log' = [log EXCEPT ![i] = Append(@, c)]
    /\ pc' = [pc EXCEPT ![i] = p]

\* The await the handler is suspended on completes with result r.
Record(i, r) == env' = [env EXCEPT ![i] = Append(@, r)]

\* The except clause chosen for an exception of class kind raised inside
\* the try block (bot.py:131-136).
ExceptMessage(kind) ==
    IF kind = "ClientError" THEN ConnectionErrorMessage
    ELSE GenericErrorMessage

\* An exception of class kind is raised inside the try block of
\* invocation i: the matching except clause sends its message.
Except(i, kind) == Issue(i, FollowupCall(ExceptMessage(kind)), "except_send")

\* The client dispatches an invocation of /callapi by a user with role set r.
Invoke(i, r) ==
    /\ lifePc = "serving" /\ task = "connected"
    /\ pc[i] = "idle"
    /\ pc' = [pc EXCEPT ![i] = "check"]
    /\ roles' = [roles EXCEPT ![i] = r]
    /\ UNCHANGED <<log, env, lifeVars>>

\* Mutant of CheckRoles: the acknowledgement is left out and the GET is
\* issued straight after the role check.
CheckRolesNoDefer(i) ==
    /\ pc[i] = "check"
    /\ IF (roles[i] \cap ALLOWED_ROLE_IDS) = {}
       THEN /\ log' = [log EXCEPT ![i] = Append(@, SendMessageCall)]
            /\ pc' = [pc EXCEPT ![i] = "deny_send"]
       ELSE /\ log' = [log EXCEPT ![i] = Append(@, GetCall)]
            /\ pc' = [pc EXCEPT ![i] = "get"]
    /\ UNCHANGED <<roles, env, lifeVars>>

\* bot.py:99-111  role check; denied: send the ephemeral denial,
\* authorized: acknowledge with defer.
CheckRoles(i) ==
    /\ pc[i] = "check"
    /\ IF ~Authorized(roles[i])
       THEN Issue(i, SendMessageCall, "deny_send")
       ELSE Issue(i, DeferCall, "defer")
    /\ UNCHANGED <<roles, env, lifeVars>>

\* bot.py:103-108  the denial send completes; the handler returns, or the
\* exception of a rejected send leaves the handler.
DenySendDone(i, r) ==
    /\ pc[i] = "deny_send"
    /\ Record(i, r)
    /\ pc' = [pc EXCEPT ![i] = IF r.res = "ok" THEN "returned" ELSE "raised"]
    /\ UNCHANGED <<roles, log, lifeVars>>

\* bot.py:111-115  defer completes.  It is outside the try block: an
\* exception leaves the handler.  Otherwise the GET is issued.
DeferDone(i, r) ==
    /\ pc[i] = "defer"
    /\ Record(i, r)
    /\ IF r.res = "ok"
       THEN Issue(i, GetCall, "get")
       ELSE /\ pc' = [pc EXCEPT ![i] = "raised"]
            /\ UNCHANGED log
    /\ UNCHANGED <<roles, lifeVars>>

\* bot.py:115-130  the GET completes: status 200 -> await response.json();
\* another status -> send the status text; exception -> except clause.
GetDone(i, r) ==
    /\ pc[i] = "get"
    /\ Record(i, r)
    /\ IF r.res # "ok" THEN Except(i, r.res)
       ELSE IF r.status = 200
            THEN Issue(i, JsonCall, "json")
            ELSE Issue(i, FollowupCall(StatusErrorMessage(r.status)),
                       "try_send")
    /\ UNCHANGED <<roles, lifeVars>>

\* bot.py:117-126  response.json() completes: build and send the embed.
\* data.get on a value that is not a dict raises AttributeError.
JsonDone(i, r) ==
    /\ pc[i] = "json"
    /\ Record(i, r)
    /\ IF r.res # "ok" THEN Except(i, r.res)
       ELSE IF ~r.isDict THEN Except(i, "Exception")
       ELSE Issue(i, FollowupCall(QuoteEmbed(r.data)), "try_send")
    /\ UNCHANGED <<roles, lifeVars>>

\* bot.py:126,128  the followup.send inside the try block completes.
TrySendDone(i, r) ==
    /\ pc[i] = "try_send"
    /\ Record(i, r)
    /\ IF r.res = "ok"
       THEN /\ pc' = [pc EXCEPT ![i] = "returned"]
            /\ UNCHANGED log
       ELSE Except(i, r.res)
    /\ UNCHANGED <<roles, lifeVars>>

\* bot.py:133,136  the followup.send of an except clause completes; an
\* exception raised there leaves the handler.
ExceptSendDone(i, r) ==
    /\ pc[i] = "except_send"
    /\ Record(i, r)
    /\ pc' = [pc EXCEPT ![i] = IF r.res = "ok" THEN "returned" ELSE "raised"]
    /\ UNCHANGED <<roles, log, lifeVars>>

\* One step of invocation i.
HandlerStep(i) ==
    \/ CheckRoles(i)
    \/ \E r \in PlatformResults : DenySendDone(i, r)
    \/ \E r \in PlatformResults : DeferDone(i, r)
    \/ \E r \in GetResults : GetDone(i, r)
    \/ \E r \in JsonResults : JsonDone(i, r)
    \/ \E r \in PlatformResults : TrySendDone(i, r)
    \/ \E r \in PlatformResults : ExceptSendDone(i, r)

\* ------------------------------------------------------------------------
\* lifespan, the client task, setup_hook, on_ready, root (bot.py:27-89)
\* ------------------------------------------------------------------------
\* bot.py:54  `not BOT_TOKEN`: None and the empty string are both falsy.
Falsy(v) == v = NONE \/ v = ""

\* Mutant of TaskDone: the task is not waited for.
TaskDoneAlways(t) == TRUE

\* bot.py:70  `await task` resumes once the task has terminated.
TaskDone(t) == t \in {"finished", "failed"}

\* bot.py:80  the body root() returns; FastAPI answers it with status 200.
RootResponse ==
    [status |-> 200, body |-> {<<"status", "Bot is alive and listening!">>}]

\* Mutant of Startup: the task is created before the token is checked.
StartupTaskFirst ==
    /\ lifePc = "init"
    /\ task' = "created"
    /\ lifePc' = IF BOT_TOKEN = NONE \/ BOT_TOKEN = ""
                 THEN "startup_failed" ELSE "serving"
    /\ UNCHANGED <<BOT_TOKEN, GUILD_ID, clientClosed, synced, taskAtShutdown,
                   health, cmdVars>>

\* bot.py:52-63  startup half of lifespan: without a token ValueError is
\* raised before the task is created; otherwise the task is created and
\* the application starts serving (yield).
Startup ==
    /\ lifePc = "init"
    /\ IF Falsy(BOT_TOKEN)
       THEN /\ lifePc' = "startup_failed"
            /\ UNCHANGED task
       ELSE /\ task' = "created"
            /\ lifePc' = "serving"
    /\ UNCHANGED <<BOT_TOKEN, GUILD_ID, clientClosed, synced, taskAtShutdown,
                   health, cmdVars>>

\* bot.py:60  the event loop starts running client.start(BOT_TOKEN).
TaskRun ==
    /\ task = "created"
    /\ task' = "connecting"
    /\ UNCHANGED <<BOT_TOKEN, GUILD_ID, lifePc, clientClosed, synced,
                   taskAtShutdown, health, cmdVars>>

\* bot.py:32-40  setup_hook: sync the command tree to the configured guild,
\* or globally when GUILD_ID is not set.
SetupHook ==
    /\ task = "connecting"
    /\ synced = "none"
    /\ synced' = IF ~Falsy(GUILD_ID) THEN "guild" ELSE "global"
    /\ UNCHANGED <<BOT_TOKEN, GUILD_ID, lifePc, task, clientClosed,
                   taskAtShutdown, health, cmdVars>>

\* bot.py:83-89  on_ready: the client is connected and dispatches commands.
OnReady ==
    /\ task = "connecting"
    /\ synced # "none"
    /\ ~clientClosed
    /\ task' = "connected"
    /\ UNCHANGED <<BOT_TOKEN, GUILD_ID, lifePc, clientClosed, synced,
                   taskAtShutdown, health, cmdVars>>

\* bot.py:60  client.start raises (login or sync rejected, connection
\* lost): the task terminates with a failure.
TaskFail ==
    /\ task \in {"connecting", "connected"}
    /\ task' = "failed"
    /\ UNCHANGED <<BOT_TOKEN, GUILD_ID, lifePc, clientClosed, synced,
                   taskAtShutdown, health, cmdVars>>

\* bot.py:60  client.start returns once the client has been closed.
TaskFinish ==
    /\ clientClosed
    /\ task \in {"created", "connecting", "connected"}
    /\ task' = "finished"
    /\ UNCHANGED <<BOT_TOKEN, GUILD_ID, lifePc, clientClosed, synced,
                   taskAtShutdown, health, cmdVars>>

\* bot.py:65-68  the application shuts down: lifespan resumes after the
\* yield and calls client.close().
BeginShutdown ==
    /\ lifePc = "serving"
    /\ lifePc' = "closing"
    /\ taskAtShutdown' = task
    /\ UNCHANGED <<BOT_TOKEN, GUILD_ID, task, clientClosed, synced, health,
                   cmdVars>>

\* bot.py:68-70  client.close() completes; lifespan awaits the task.
CloseDone ==
    /\ lifePc = "closing"
    /\ clientClosed' = TRUE
    /\ lifePc' = "awaiting"
    /\ UNCHANGED <<BOT_TOKEN, GUILD_ID, task, synced, taskAtShutdown, health,
                   cmdVars>>

\* bot.py:70-71  `await task` completes: shutdown is reported, or the
\* exception the task ended with is raised out of lifespan.
AwaitTask ==
    /\ lifePc = "awaiting"
    /\ TaskDone(task)
    /\ lifePc' = IF task = "failed" THEN "shutdown_raised" ELSE "done"
    /\ UNCHANGED <<BOT_TOKEN, GUILD_ID, task, clientClosed, synced,
                   taskAtShutdown, health, cmdVars>>

\* Mutant of Root: the answer reports whether the client is connected.
RootWhenReady ==
    /\ lifePc = "serving"
    /\ health' = health \cup
           {<<task, IF task = "connected" THEN RootResponse
                    ELSE [status |-> 503, body |-> {<<"status", "down">>}]>>}
    /\ UNCHANGED <<BOT_TOKEN, GUILD_ID, lifePc, task, clientClosed, synced,
                   taskAtShutdown, cmdVars>>

\* bot.py:77-80  GET / is answered while the application is serving.
Root ==
    /\ lifePc = "serving"
    /\ health' = health \cup {<<task, RootResponse>>}
    /\ UNCHANGED <<BOT_TOKEN, GUILD_ID, lifePc, task, clientClosed, synced,
                   taskAtShutdown, cmdVars>>

\* ------------------------------------------------------------------------
\* Specifications
\* ------------------------------------------------------------------------
NoInvocations ==
    /\ pc = [i \in Invocations |-> "idle"]
    /\ roles = [i \in Invocations |-> {}]  \* not yet read
    /\ log = [i \in Invocations |-> <<>>]
    /\ env = [i \in Invocations |-> <<>>]

\* The process after import: configuration read, nothing started.
LifeInit ==
    /\ BOT_TOKEN \in TokenValues
    /\ GUILD_ID \in GuildValues
    /\ lifePc = "init"
    /\ task = "none"
    /\ clientClosed = FALSE
    /\ synced = "none"
    /\ taskAtShutdown = "none"
    /\ health = {}
    /\ NoInvocations

LifeNext ==
    \/ Startup
    \/ TaskRun
    \/ SetupHook
    \/ OnReady
    \/ TaskFail
    \/ TaskFinish
    \/ BeginShutdown
    \/ CloseDone
    \/ AwaitTask
    \/ Root

\* Process lifetime: startup, the client task, shutdown, health checks.
LifeSpec == LifeInit /\ [][LifeNext]_vars

\* The process while it serves with the client connected: the state in
\* which the client dispatches command invocations.
Init ==
    /\ BOT_TOKEN = "t0k3n"
    /\ GUILD_ID = NONE
    /\ lifePc = "serving"
    /\ task = "connected"
    /\ clientClosed = FALSE
    /\ synced = (IF ~Falsy(GUILD_ID) THEN "guild" ELSE "global")
    /\ taskAtShutdown = "none"
    /\ health = {}
    /\ NoInvocations

Next ==
    \/ \E i \in Invocations, r \in RoleSets : Invoke(i, r)
    \/ \E i \in Invocations : CheckRoles(i)
    \/ \E i \in Invocations, r \in PlatformResults : DenySendDone(i, r)
    \/ \E i \in Invocations, r \in PlatformResults : DeferDone(i, r)
    \/ \E i \in Invocations, r \in GetResults : GetDone(i, r)
    \/ \E i \in Invocations, r \in JsonResults : JsonDone(i, r)
    \/ \E i \in Invocations, r \in PlatformResults : TrySendDone(i, r)
    \/ \E i \in Invocations, r \in PlatformResults : ExceptSendDone(i, r)

\* Command handling: concurrent invocations of /callapi, interleaved at
\* their awaits.
Spec == Init /\ [][Next]_vars

\* ------------------------------------------------------------------------
\* Vocabulary of the properties
\* ------------------------------------------------------------------------
Allowed(i) == (roles[i] \cap ALLOWED_ROLE_IDS) # {}

\* Invocation i has passed the role check / has ended.
Checked(i) == pc[i] \notin {"idle", "check"}
Ended(i)   == pc[i] \in {"returned", "raised"}

\* Positions in log[i] of the calls with operation op.
CallsOf(i, op) == {k \in 1..Len(log[i]) : log[i][k].op = op}

\* Positions in log[i] of the replies sent to the invocation.
Replies(i) == CallsOf(i, "response.send_message") \cup CallsOf(i, "followup.send")

DenialText == "Sorry, you don't have the required role to use this command."
ConnectionErrorText == "An error occurred while trying to connect to the API."
GenericErrorText == "An unexpected error occurred."

\* ------------------------------------------------------------------------
\* C1: an invocation whose role set shares nothing with ALLOWED_ROLE_IDS
\* sends exactly one reply, the ephemeral denial through the immediate
\* response, and never issues a defer or a GET.
\* ------------------------------------------------------------------------
C1_DeniedSendsOnlyDenial ==
    \A i \in Invocations :
        (Checked(i) /\ ~Allowed(i)) =>
            /\ Len(log[i]) = 1
            /\ log[i][1].op = "response.send_message"
            /\ log[i][1].ephemeral = TRUE
            /\ log[i][1].msg.kind = "text"
            /\ log[i][1].msg.text = DenialText
            /\ CallsOf(i, "session.get") = {}
            /\ CallsOf(i, "response.defer") = {}

\* A user holding a role that is not allowed was denied and the handler
\* returned.
C1_Witness ==
    \E i \in Invocations :
        /\ roles[i] = {"111"}
        /\ pc[i] = "returned"
        /\ Len(log[i]) = 1

\* ------------------------------------------------------------------------
\* C2: an invocation whose role set meets ALLOWED_ROLE_IDS issues exactly
\* one GET by the time its handling ends, never zero and never two.
\* ------------------------------------------------------------------------
C2_ExactlyOneGet ==
    \A i \in Invocations :
        (Ended(i) /\ Allowed(i)) =>
            Cardinality(CallsOf(i, "session.get")) = 1

\* ------------------------------------------------------------------------
\* C3: every handling ends with exactly one reply sent to the invocation,
\* on every path.
\* ------------------------------------------------------------------------
C3_ExactlyOneReply ==
    \A i \in Invocations :
        Ended(i) => Cardinality(Replies(i)) = 1

\* ------------------------------------------------------------------------
\* C4: for an authorized invocation every failure after authorization
\* (defer, GET, body parsing, sending the reply) is caught in the handler:
\* a network-level failure of the GET is answered with the connection-error
\* reply, any other failure with the generic-error reply, and no failure
\* leaves the handler.
\* ------------------------------------------------------------------------
C4_FailuresCaught ==
    \A i \in Invocations :
        Allowed(i) =>
            /\ pc[i] # "raised"
            /\ \A k \in 1..Len(env[i]) :
                  env[i][k].res # "ok" =>
                      /\ Len(log[i]) > k
                      /\ log[i][k + 1].op = "followup.send"
                      /\ log[i][k + 1].msg.text =
                            IF log[i][k].op = "session.get"
                                   /\ env[i][k].res = "ClientError"
                            THEN ConnectionErrorText
                            ELSE GenericErrorText

\* ------------------------------------------------------------------------
\* C10: an authorized invocation is handled in a fixed order: the role
\* check, then exactly one defer, then the GET (only after the defer has
\* succeeded), then the replies as follow-ups; nothing is sent through the
\* immediate response of an authorized invocation.
\* ------------------------------------------------------------------------
C10_AuthorizedOrder ==
    \A i \in Invocations :
        (Checked(i) /\ Allowed(i)) =>
            /\ Len(log[i]) >= 1
            /\ CallsOf(i, "response.defer") = {1}
            /\ CallsOf(i, "session.get") \subseteq {2}
            /\ CallsOf(i, "session.get") # {} =>
                  Len(env[i]) >= 1 /\ env[i][1].res = "ok"
            /\ \A k \in CallsOf(i, "followup.send") :
                  k > 2 /\ CallsOf(i, "session.get") = {2}
            /\ CallsOf(i, "response.send_message") = {}

\* An authorized invocation went through defer, GET, body parsing and the
\* follow-up, and returned.
C10_Witness ==
    \E i \in Invocations :
        /\ Allowed(i)
        /\ pc[i] = "returned"
        /\ Len(log[i]) = 4
        /\ log[i][4].op = "followup.send"
        /\ log[i][4].msg.kind = "embed"

\* ------------------------------------------------------------------------
\* C5: invocations are isolated under every interleaving at the awaits.
\* The calls an invocation issues are those of the handler run alone on its
\* own role set and its own await results, whatever the other invocations
\* do or suffer, and an invocation that has not ended can always take its
\* next step.
\* ------------------------------------------------------------------------
NoCall == Call("none", NoMessage, FALSE)

\* The handler run alone: the first call after the role check on role set r.
AloneFirst(r) ==
    IF (r \cap ALLOWED_ROLE_IDS) = {} THEN SendMessageCall ELSE DeferCall

\* The handler run alone: the call that follows call c once c has completed
\* with result x (NoCall when the handler ends there).
AloneAfter(c, x) ==
    LET caught == FollowupCall(IF x.res = "ClientError"
                               THEN ConnectionErrorMessage
                               ELSE GenericErrorMessage)
    IN  CASE c.op = "response.send_message" -> NoCall
          [] c.op = "response.defer" ->
                 IF x.res = "ok" THEN GetCall ELSE NoCall
          [] c.op = "session.get" ->
                 IF x.res # "ok" THEN caught
                 ELSE IF x.status = 200 THEN JsonCall
                 ELSE FollowupCall(StatusErrorMessage(x.status))
          [] c.op = "response.json" ->
                 IF x.res # "ok" THEN caught
                 ELSE IF ~x.isDict THEN FollowupCall(GenericErrorMessage)
                 ELSE FollowupCall(QuoteEmbed(x.data))
          [] c.op = "followup.send" ->
                 IF x.res = "ok" \/ c.msg \in {ConnectionErrorMessage,
                                               GenericErrorMessage}
                 THEN NoCall
                 ELSE caught
          [] OTHER -> NoCall

\* The handler run alone on role set r with await results e: its calls.
RECURSIVE AloneLog(_, _)
AloneLog(r, e) ==
    IF Len(e) = 0 THEN <<AloneFirst(r)>>
    ELSE LET before == AloneLog(r, SubSeq(e, 1, Len(e) - 1))
             nxt == IF Len(before) < Len(e) THEN NoCall
                    ELSE AloneAfter(before[Len(e)], e[Len(e)])
         IN  IF nxt = NoCall THEN before ELSE Append(before, nxt)

\* C5: every invocation's calls are those of the handler run alone on its
\* own inputs, and no invocation is held up by another.
C5_Isolated ==
    \A i \in Invocations :
        /\ Checked(i) =>
              /\ log[i] = AloneLog(roles[i], env[i])
              /\ Ended(i) <=> Len(env[i]) = Len(log[i])
        /\ ~Checked(i) => log[i] = <<>> /\ env[i] = <<>>
        /\ (pc[i] # "idle" /\ ~Ended(i)) => ENABLED HandlerStep(i)

\* One invocation ended with a failure that left its handler while the
\* other, started before that, went on to return its quote.
C5_Witness ==
    \E i, j \in Invocations :
        /\ i # j
        /\ pc[i] = "raised"
        /\ pc[j] = "returned"
        /\ Len(log[j]) = 4
        /\ log[j][4].msg.kind = "embed"

\* ------------------------------------------------------------------------
\* C6 (as stated): for an authorized invocation that received an API
\* response, with status 200 the reply is the quote reply built from the
\* body, with another status the reply is the status text, and no failure
\* leaves the handler.
\* ------------------------------------------------------------------------
GotResponse(i) ==
    /\ Allowed(i)
    /\ Len(env[i]) >= 2
    /\ log[i][2].op = "session.get"
    /\ env[i][2].res = "ok"

\* The value under key in a parsed body, or dflt.
Field(d, key, dflt) ==
    IF \E p \in d : p[1] = key THEN (CHOOSE p \in d : p[1] = key)[2] ELSE dflt

IsQuoteReply(c, d) ==
    /\ c.op = "followup.send"
    /\ c.msg.kind = "embed"
    /\ c.msg.quote = "_" \o Field(d, "content", "N/A") \o "_"
    /\ c.msg.author = "- " \o Field(d, "author", "Unknown")

IsStatusReply(c, status) ==
    /\ c.op = "followup.send"
    /\ c.msg.kind = "text"
    /\ c.msg.text = CASE status = 500 ->
                           "Error: The API returned a status code of '500'."
                      [] OTHER -> "?"

C7_NoTokenNoTask ==
    (BOT_TOKEN = NONE \/ BOT_TOKEN = "") =>
        /\ task = "none"
        /\ lifePc \in {"init", "startup_failed"}
        /\ health = {}

\* Startup ran without a token and failed.
C7_Witness == BOT_TOKEN = NONE /\ lifePc = "startup_failed"

\* ------------------------------------------------------------------------
\* C8: on shutdown the client is closed first and the task is then awaited:
\* lifespan's shutdown ends (reported complete, or with the task's own
\* exception) only after close has completed and the task has terminated,
\* whatever state the task was in when shutdown began.
\* ------------------------------------------------------------------------
C8_CloseThenAwait ==
    /\ lifePc \in {"awaiting", "done", "shutdown_raised"} => clientClosed
    /\ lifePc \in {"done", "shutdown_raised"} =>
           task \in {"finished", "failed"}
    /\ lifePc = "done" => task = "finished"
    /\ clientClosed => lifePc \in {"awaiting", "done", "shutdown_raised"}

\* Shutdown began while the client was still connecting and was reported
\* complete.
C8_Witness == lifePc = "done" /\ taskAtShutdown = "connecting"

\* ------------------------------------------------------------------------
\* C9: every answer of GET / is status 200 with the fixed body, in whatever
\* state the client task is.
\* ------------------------------------------------------------------------
C9_HealthFixed ==
    \A h \in health :
        /\ h[2].status = 200
        /\ h[2].body = {<<"status", "Bot is alive and listening!">>}

\* Health checks were answered while the client task had not started
\* running, while it was connected and after it had failed.
C9_Witness ==
    /\ \E h \in health : h[1] = "created"
    /\ \E h \in health : h[1] = "connected"
    /\ \E h \in health : h[1] = "failed"

====
